---- MODULE Spec2Model ----
(***************************************************************************)
(* PointCloud2D (src/src/pointcloud2d.rs): a vector of points with, for    *)
(* each axis, the permutation rank -> index (sorted_x, sorted_y) and its   *)
(* inverse index -> rank (positions_x, positions_y).                       *)
(* ToolBox (src/src/toolbox.rs): a vector of tools and the index of the    *)
(* active one; a tool is the list of the events it has received.           *)
(*                                                                         *)
(* Vectors are functions over 0..n-1, as the code indexes them.            *)
(* Coordinates are integers counting eighths of a world unit: every f64    *)
(* operation the code performs on such values (subtraction, squaring,      *)
(* addition of two squares, comparison) is exact, so MAX_DISTANCE = 0.25   *)
(* is 2 and f64::EPSILON is below one unit. Where a difference of one      *)
(* f64::EPSILON matters the unit is f64::EPSILON itself (SpecFine). NaN is *)
(* one more value, which no arithmetic produces from numbers.              *)
(***************************************************************************)
EXTENDS Integers, Sequences, FiniteSets, TLC

VARIABLES points, positions_x, positions_y, sorted_x, sorted_y, is_sorted,
          debug_assertions, search, panicked, call, tools, active_tool

vars == <<points, positions_x, positions_y, sorted_x, sorted_y, is_sorted,
          debug_assertions, search, panicked, call, tools, active_tool>>

(* ------------------------------ bounds -------------------------------- *)

\* most points a cloud holds
MaxPoints == 3

\* most points of a cloud that is only pushed to
MaxPushes == 4

\* coordinates of the points given to push and update_point are 0..MaxCoord
MaxCoord == 1

\* query values reach QueryMargin beyond the coordinates on either side
QueryMargin == 1

\* most tools a toolbox holds
MaxTools == 2

\* most events one tool receives
MaxEvents == 3

Coord == 0..MaxCoord

Point2D == [x : Coord, y : Coord]

QueryCoord == (0 - QueryMargin)..(MaxCoord + QueryMargin)

QueryPoint == [x : QueryCoord, y : QueryCoord]

(* --------------------------- program constants ------------------------ *)

\* const MAX_DISTANCE: f64 = 0.25, in eighths
MAX_DISTANCE == 2

MAX_DISTANCE_SQ == MAX_DISTANCE * MAX_DISTANCE

\* f64::EPSILON (2.2e-16), in eighths, rounded down
EPSILON == 0

(* ------------------------------ f64 values ---------------------------- *)

\* the f64 that is not a number: no coordinate, distance or query value of the
\* model is this integer
NaN == 0 - 1000

IsNaN(a) == a = NaN

\* f64 arithmetic: a NaN operand gives NaN
f64_sub(a, b) == IF IsNaN(a) \/ IsNaN(b) THEN NaN ELSE a - b

f64_add(a, b) == IF IsNaN(a) \/ IsNaN(b) THEN NaN ELSE a + b

f64_mul(a, b) == IF IsNaN(a) \/ IsNaN(b) THEN NaN ELSE a * b

f64_abs(a) == IF IsNaN(a) THEN NaN ELSE IF a < 0 THEN 0 - a ELSE a

\* f64 comparison with < and >: false when an operand is NaN
f64_lt(a, b) == ~IsNaN(a) /\ ~IsNaN(b) /\ a < b

f64_gt(a, b) == ~IsNaN(a) /\ ~IsNaN(b) /\ a > b

(* ------------------------------ vectors ------------------------------- *)

EmptyVec == [i \in {} |-> 0]

VLen(v) == Cardinality(DOMAIN v)

\* as VPush, but the element is put first and the others move up by one
VPushFront(v, e) == [i \in 0..VLen(v) |-> IF i = 0 THEN e ELSE v[i - 1]]

\* Vec::push
VPush(v, e) == [i \in 0..VLen(v) |-> IF i < VLen(v) THEN v[i] ELSE e]

\* Vec::insert(k, e), k <= len
VInsert(v, k, e) ==
    [i \in 0..VLen(v) |-> IF i < k THEN v[i] ELSE IF i = k THEN e ELSE v[i - 1]]

\* Vec::contains
VContains(v, e) == \E i \in DOMAIN v : v[i] = e

(* ------------------------------ the struct ---------------------------- *)

\* the fields of self, with the flag that a panic has ended the call
Self ==
    [points |-> points, positions_x |-> positions_x, positions_y |-> positions_y,
     sorted_x |-> sorted_x, sorted_y |-> sorted_y, is_sorted |-> is_sorted,
     panic |-> FALSE]

Panic(c) == [c EXCEPT !.panic = TRUE]

(* --------------------------- binary search ---------------------------- *)

\* as partial_cmp, but with Less and Greater exchanged
partial_cmp_reversed(a, b) ==
    IF IsNaN(a) \/ IsNaN(b) THEN "None"
    ELSE IF a < b THEN "Greater" ELSE IF a > b THEN "Less" ELSE "Equal"

\* f64::partial_cmp: None when an operand is NaN
partial_cmp(a, b) ==
    IF IsNaN(a) \/ IsNaN(b) THEN "None"
    ELSE IF a < b THEN "Less" ELSE IF a > b THEN "Greater" ELSE "Equal"

Ok(i) == [ok |-> TRUE, v |-> i, panic |-> FALSE]

Err(i) == [ok |-> FALSE, v |-> i, panic |-> FALSE]

\* .expect("could not compare!") on None: the panic unwinds through the search
Unwind == [ok |-> FALSE, v |-> 0, panic |-> TRUE]

\* slice::binary_search_by as in core before 1.52 and from 1.82 on: the loop
\* halves the range and keeps the last element that is not Greater. The
\* comparator is called on the elements the loop probes; a probe that cannot
\* be compared ends the loop with -1.
RECURSIVE HalvingLoop(_, _, _)
HalvingLoop(cmp, base, size) ==
    IF size > 1
    THEN LET half == size \div 2
             mid == base + half
         IN IF cmp[mid] = "None" THEN 0 - 1
            ELSE HalvingLoop(cmp, IF cmp[mid] = "Greater" THEN base ELSE mid, size - half)
    ELSE base

binary_search_halving(cmp) ==
    IF VLen(cmp) = 0
    THEN Err(0)
    ELSE LET base == HalvingLoop(cmp, 0, VLen(cmp))
         IN IF base < 0 THEN Unwind
            ELSE IF cmp[base] = "None" THEN Unwind
            ELSE IF cmp[base] = "Equal"
            THEN Ok(base)
            ELSE Err(base + (IF cmp[base] = "Less" THEN 1 ELSE 0))

\* slice::binary_search_by as in core 1.52 to 1.81: the loop returns at the
\* first probe that compares Equal.
RECURSIVE EarlyLoop(_, _, _)
EarlyLoop(cmp, left, right) ==
    IF left < right
    THEN LET mid == left + ((right - left) \div 2)
         IN IF cmp[mid] = "None" THEN Unwind
            ELSE IF cmp[mid] = "Less" THEN EarlyLoop(cmp, mid + 1, right)
            ELSE IF cmp[mid] = "Greater" THEN EarlyLoop(cmp, left, mid)
            ELSE Ok(mid)
    ELSE Err(left)

binary_search_early(cmp) == EarlyLoop(cmp, 0, VLen(cmp))

\* as binary_search_by, but no value is found and every value is placed after
\* the last element
binary_search_by_past_the_end(impl, cmp) == Err(VLen(cmp))

\* Which of several equal elements binary_search_by finds is left open by its
\* contract and fixed by the toolchain that builds the crate.
binary_search_by(impl, cmp) ==
    IF impl = "halving" THEN binary_search_halving(cmp) ELSE binary_search_early(cmp)

\* as find_point_position_x, but a value that was not found is also placed
\* one rank further
find_point_position_x_always_after(c, impl, new_x) ==
    IF ~c.is_sorted
    THEN Err(0)
    ELSE LET found == binary_search_by(impl,
                 [r \in DOMAIN c.sorted_x |-> partial_cmp(c.points[c.sorted_x[r]].x, new_x)])
         IN IF found.panic THEN found ELSE Ok(found.v + 1)

\* as find_point_position_x, but a value that was found is placed two ranks
\* further
find_point_position_x_two_after(c, impl, new_x) ==
    IF ~c.is_sorted
    THEN Err(0)
    ELSE LET found == binary_search_by(impl,
                 [r \in DOMAIN c.sorted_x |-> partial_cmp(c.points[c.sorted_x[r]].x, new_x)])
         IN IF found.panic THEN found
            ELSE IF found.ok THEN Ok(found.v + 2) ELSE Ok(found.v)

\* as find_point_position_x, but a value that was found is placed at the rank
\* where it was found
find_point_position_x_at_match(c, impl, new_x) ==
    IF ~c.is_sorted
    THEN Err(0)
    ELSE LET found == binary_search_by(impl,
                 [r \in DOMAIN c.sorted_x |-> partial_cmp(c.points[c.sorted_x[r]].x, new_x)])
         IN IF found.panic THEN found ELSE Ok(found.v)

find_point_position_x(c, impl, new_x) ==
    IF ~c.is_sorted
    THEN Err(0)
    ELSE LET found == binary_search_by(impl,
                 [r \in DOMAIN c.sorted_x |-> partial_cmp(c.points[c.sorted_x[r]].x, new_x)])
         IN IF found.panic THEN found
            ELSE IF found.ok THEN Ok(found.v + 1) ELSE Ok(found.v)

\* as find_point_position_y, but a value that was found is placed two ranks
\* further
find_point_position_y_two_after(c, impl, new_y) ==
    IF ~c.is_sorted
    THEN Err(0)
    ELSE LET found == binary_search_by(impl,
                 [r \in DOMAIN c.sorted_y |-> partial_cmp(c.points[c.sorted_y[r]].y, new_y)])
         IN IF found.panic THEN found
            ELSE IF found.ok THEN Ok(found.v + 2) ELSE Ok(found.v)

\* as find_point_position_y, but the search is made in either mode
find_point_position_y_in_any_mode(c, impl, new_y) ==
    LET found == binary_search_by(impl,
            [r \in DOMAIN c.sorted_y |-> partial_cmp(c.points[c.sorted_y[r]].y, new_y)])
    IN IF found.panic THEN found
       ELSE IF found.ok THEN Ok(found.v + 1) ELSE Ok(found.v)

find_point_position_y(c, impl, new_y) ==
    IF ~c.is_sorted
    THEN Err(0)
    ELSE LET found == binary_search_by(impl,
                 [r \in DOMAIN c.sorted_y |-> partial_cmp(c.points[c.sorted_y[r]].y, new_y)])
         IN IF found.panic THEN found
            ELSE IF found.ok THEN Ok(found.v + 1) ELSE Ok(found.v)

(* --------------------------- check_consistency ------------------------ *)

\* as check_consistency, but the order of the X values is not looked at
check_consistency_without_x_order(c) ==
    \/ ~c.is_sorted
    \/ /\ VLen(c.points) = VLen(c.positions_x)
       /\ VLen(c.positions_x) = VLen(c.positions_y)
       /\ VLen(c.positions_y) = VLen(c.sorted_x)
       /\ VLen(c.sorted_x) = VLen(c.sorted_y)
       /\ \A i \in 0..(VLen(c.points) - 1) :
            /\ VContains(c.positions_x, i)
            /\ VContains(c.positions_y, i)
            /\ VContains(c.sorted_x, i)
            /\ VContains(c.sorted_y, i)
       /\ \A i \in 0..(VLen(c.sorted_x) - 1) :
            LET index == c.sorted_x[i]
            IN c.positions_x[index] = i
       /\ \A i \in 0..(VLen(c.sorted_y) - 1) :
            LET index == c.sorted_y[i]
            IN /\ c.positions_y[index] = i
               /\ i >= 1 => ~f64_gt(c.points[c.sorted_y[i - 1]].y, c.points[index].y)
               /\ i + 1 < VLen(c.sorted_y) =>
                     ~f64_lt(c.points[c.sorted_y[i + 1]].y, c.points[index].y)

\* TRUE when check_consistency returns, FALSE when one of its assertions fails
check_consistency(c) ==
    \/ ~c.is_sorted
    \/ /\ VLen(c.points) = VLen(c.positions_x)
       /\ VLen(c.positions_x) = VLen(c.positions_y)
       /\ VLen(c.positions_y) = VLen(c.sorted_x)
       /\ VLen(c.sorted_x) = VLen(c.sorted_y)
       /\ \A i \in 0..(VLen(c.points) - 1) :
            /\ VContains(c.positions_x, i)
            /\ VContains(c.positions_y, i)
            /\ VContains(c.sorted_x, i)
            /\ VContains(c.sorted_y, i)
       /\ \A i \in 0..(VLen(c.sorted_x) - 1) :
            LET index == c.sorted_x[i]
            IN /\ c.positions_x[index] = i
               /\ i >= 1 => ~f64_gt(c.points[c.sorted_x[i - 1]].x, c.points[index].x)
               /\ i + 1 < VLen(c.sorted_x) =>
                     ~f64_lt(c.points[c.sorted_x[i + 1]].x, c.points[index].x)
       /\ \A i \in 0..(VLen(c.sorted_y) - 1) :
            LET index == c.sorted_y[i]
            IN /\ c.positions_y[index] = i
               /\ i >= 1 => ~f64_gt(c.points[c.sorted_y[i - 1]].y, c.points[index].y)
               /\ i + 1 < VLen(c.sorted_y) =>
                     ~f64_lt(c.points[c.sorted_y[i + 1]].y, c.points[index].y)

\* #[cfg(debug_assertions)] self.check_consistency(): absent from a release build
debug_check(c, dbg) == IF dbg /\ ~check_consistency(c) THEN Panic(c) ELSE c

(* -------------------------------- push -------------------------------- *)

\* as push, but the point that stood at the rank of the new point keeps its
\* position
push_keeps_rank(c, impl, dbg, p) ==
    LET new_index == VLen(c.points)
        c1 == [c EXCEPT !.points = VPush(c.points, p)]
    IN IF ~c1.is_sorted
       THEN debug_check(c1, dbg)
       ELSE LET found_x == find_point_position_x(c1, impl, p.x)
                index_x == found_x.v
                c2 == [c1 EXCEPT
                         !.positions_x = VPush([j \in DOMAIN c1.positions_x |->
                                                  IF c1.positions_x[j] > index_x
                                                  THEN c1.positions_x[j] + 1
                                                  ELSE c1.positions_x[j]], index_x),
                         !.sorted_x = VInsert(c1.sorted_x, index_x, new_index)]
                found_y == find_point_position_y(c2, impl, p.y)
                index_y == found_y.v
                c3 == [c2 EXCEPT
                         !.positions_y = VPush([j \in DOMAIN c2.positions_y |->
                                                  IF c2.positions_y[j] > index_y
                                                  THEN c2.positions_y[j] + 1
                                                  ELSE c2.positions_y[j]], index_y),
                         !.sorted_y = VInsert(c2.sorted_y, index_y, new_index)]
            IN IF found_x.panic \/ index_x > VLen(c1.sorted_x) THEN Panic(c1)
               ELSE IF found_y.panic \/ index_y > VLen(c2.sorted_y) THEN Panic(c2)
               ELSE debug_check(c3, dbg)

\* Vec::insert panics when the index is beyond the length; a panic of the
\* first search leaves the point pushed, one of the second also the X vectors
push(c, impl, dbg, p) ==
    LET new_index == VLen(c.points)
        c1 == [c EXCEPT !.points = VPush(c.points, p)]
    IN IF ~c1.is_sorted
       THEN debug_check(c1, dbg)
       ELSE LET found_x == find_point_position_x(c1, impl, p.x)
                index_x == found_x.v
                c2 == [c1 EXCEPT
                         !.positions_x = VPush([j \in DOMAIN c1.positions_x |->
                                                  IF c1.positions_x[j] >= index_x
                                                  THEN c1.positions_x[j] + 1
                                                  ELSE c1.positions_x[j]], index_x),
                         !.sorted_x = VInsert(c1.sorted_x, index_x, new_index)]
                found_y == find_point_position_y(c2, impl, p.y)
                index_y == found_y.v
                c3 == [c2 EXCEPT
                         !.positions_y = VPush([j \in DOMAIN c2.positions_y |->
                                                  IF c2.positions_y[j] >= index_y
                                                  THEN c2.positions_y[j] + 1
                                                  ELSE c2.positions_y[j]], index_y),
                         !.sorted_y = VInsert(c2.sorted_y, index_y, new_index)]
            IN IF found_x.panic \/ index_x > VLen(c1.sorted_x) THEN Panic(c1)
               ELSE IF found_y.panic \/ index_y > VLen(c2.sorted_y) THEN Panic(c2)
               ELSE debug_check(c3, dbg)

(* ------------------------ update_point_y / _x ------------------------- *)

\* as move_down, but the point that stood just below old_position is not moved
move_down_one_short(positions, sorted, old_position, new_position, point_index) ==
    [positions |-> [j \in DOMAIN positions |->
                      IF positions[j] = old_position THEN new_position
                      ELSE IF positions[j] >= new_position /\ positions[j] < old_position
                           THEN positions[j] + 1
                           ELSE positions[j]],
     sorted |-> [r \in DOMAIN sorted |->
                   IF r = new_position THEN point_index
                   ELSE IF r >= new_position + 1 /\ r < old_position
                        THEN sorted[r - 1]
                        ELSE sorted[r]]]

\* "moving down": the rank falls from old_position to new_position
move_down(positions, sorted, old_position, new_position, point_index) ==
    [positions |-> [j \in DOMAIN positions |->
                      IF positions[j] = old_position THEN new_position
                      ELSE IF positions[j] >= new_position /\ positions[j] < old_position
                           THEN positions[j] + 1
                           ELSE positions[j]],
     sorted |-> [r \in DOMAIN sorted |->
                   IF r = new_position THEN point_index
                   ELSE IF r >= new_position + 1 /\ r < old_position + 1
                        THEN sorted[r - 1]
                        ELSE sorted[r]]]

\* as move_up, but the point that stood at new_position keeps its position
move_up_keeps_last(positions, sorted, old_position, new_position, point_index) ==
    [positions |-> [j \in DOMAIN positions |->
                      IF positions[j] = old_position THEN new_position
                      ELSE IF positions[j] < new_position /\ positions[j] > old_position
                           THEN positions[j] - 1
                           ELSE positions[j]],
     sorted |-> [r \in DOMAIN sorted |->
                   IF r = new_position THEN point_index
                   ELSE IF r >= old_position /\ r < new_position
                        THEN sorted[r + 1]
                        ELSE sorted[r]]]

\* "moving up": the rank rises from old_position to new_position, which the
\* caller has already decremented
move_up(positions, sorted, old_position, new_position, point_index) ==
    [positions |-> [j \in DOMAIN positions |->
                      IF positions[j] = old_position THEN new_position
                      ELSE IF positions[j] <= new_position /\ positions[j] > old_position
                           THEN positions[j] - 1
                           ELSE positions[j]],
     sorted |-> [r \in DOMAIN sorted |->
                   IF r = new_position THEN point_index
                   ELSE IF r >= old_position /\ r < new_position
                        THEN sorted[r + 1]
                        ELSE sorted[r]]]

\* as update_point_y, but "moving up" does not decrement the rank it searched
update_point_y_no_decrement(c, impl, dbg, point_index, new_y) ==
    IF point_index >= VLen(c.points) \/ (c.is_sorted /\ point_index >= VLen(c.positions_y))
    THEN Panic(c)
    ELSE LET c1 ==
               IF ~c.is_sorted
               THEN c
               ELSE LET old_y_position == c.positions_y[point_index]
                        found == find_point_position_y(c, impl, new_y)
                        new_y_position == found.v
                    IN IF found.panic THEN Panic(c)
                       ELSE IF old_y_position > new_y_position
                       THEN LET m == move_down(c.positions_y, c.sorted_y, old_y_position,
                                               new_y_position, point_index)
                            IN [c EXCEPT !.positions_y = m.positions, !.sorted_y = m.sorted]
                       ELSE IF old_y_position < new_y_position
                               /\ new_y_position >= VLen(c.sorted_y)
                       THEN Panic(c)
                       ELSE IF old_y_position < new_y_position
                       THEN LET m == move_up(c.positions_y, c.sorted_y, old_y_position,
                                             new_y_position, point_index)
                            IN [c EXCEPT !.positions_y = m.positions, !.sorted_y = m.sorted]
                       ELSE c
             c2 == [c1 EXCEPT !.points[point_index].y = new_y]
         IN IF c1.panic THEN c1 ELSE debug_check(c2, dbg)

update_point_y(c, impl, dbg, point_index, new_y) ==
    IF point_index >= VLen(c.points) \/ (c.is_sorted /\ point_index >= VLen(c.positions_y))
    THEN Panic(c)
    ELSE LET c1 ==
               IF ~c.is_sorted
               THEN c
               ELSE LET old_y_position == c.positions_y[point_index]
                        found == find_point_position_y(c, impl, new_y)
                        new_y_position == found.v
                    IN IF found.panic THEN Panic(c)
                       ELSE IF old_y_position > new_y_position
                       THEN LET m == move_down(c.positions_y, c.sorted_y, old_y_position,
                                               new_y_position, point_index)
                            IN [c EXCEPT !.positions_y = m.positions, !.sorted_y = m.sorted]
                       ELSE IF old_y_position < new_y_position
                               /\ new_y_position - 1 >= VLen(c.sorted_y)
                       THEN Panic(c)
                       ELSE IF old_y_position < new_y_position
                       THEN LET m == move_up(c.positions_y, c.sorted_y, old_y_position,
                                             new_y_position - 1, point_index)
                            IN [c EXCEPT !.positions_y = m.positions, !.sorted_y = m.sorted]
                       ELSE c
             c2 == [c1 EXCEPT !.points[point_index].y = new_y]
         IN IF c1.panic THEN c1 ELSE debug_check(c2, dbg)

\* the rank on the X axis is searched with find_point_position_y (line 348)
update_point_x(c, impl, dbg, point_index, new_x) ==
    IF point_index >= VLen(c.points) \/ (c.is_sorted /\ point_index >= VLen(c.positions_x))
    THEN Panic(c)
    ELSE LET c1 ==
               IF ~c.is_sorted
               THEN c
               ELSE LET old_x_position == c.positions_x[point_index]
                        found == find_point_position_y(c, impl, new_x)
                        new_x_position == found.v
                    IN IF found.panic THEN Panic(c)
                       ELSE IF old_x_position > new_x_position
                       THEN LET m == move_down(c.positions_x, c.sorted_x, old_x_position,
                                               new_x_position, point_index)
                            IN [c EXCEPT !.positions_x = m.positions, !.sorted_x = m.sorted]
                       ELSE IF old_x_position < new_x_position
                               /\ new_x_position - 1 >= VLen(c.sorted_x)
                       THEN Panic(c)
                       ELSE IF old_x_position < new_x_position
                       THEN LET m == move_up(c.positions_x, c.sorted_x, old_x_position,
                                             new_x_position - 1, point_index)
                            IN [c EXCEPT !.positions_x = m.positions, !.sorted_x = m.sorted]
                       ELSE c
             c2 == [c1 EXCEPT !.points[point_index].x = new_x]
         IN IF c1.panic THEN c1 ELSE debug_check(c2, dbg)

\* as update_point, but the x is updated whether it changes or not
update_point_always_x(c, impl, dbg, point_index, new_p) ==
    IF point_index >= VLen(c.points)
    THEN Panic(c)
    ELSE LET px == c.points[point_index].x
             py == c.points[point_index].y
             c1 == update_point_x(c, impl, dbg, point_index, new_p.x)
         IN IF c1.panic
            THEN c1
            ELSE IF f64_gt(f64_abs(f64_sub(py, new_p.y)), EPSILON)
                 THEN update_point_y(c1, impl, dbg, point_index, new_p.y)
                 ELSE c1

\* as update_point, but the y is updated whether it changes or not
update_point_always_y(c, impl, dbg, point_index, new_p) ==
    IF point_index >= VLen(c.points)
    THEN Panic(c)
    ELSE LET px == c.points[point_index].x
             py == c.points[point_index].y
             c1 == IF f64_gt(f64_abs(f64_sub(px, new_p.x)), EPSILON)
                   THEN update_point_x(c, impl, dbg, point_index, new_p.x)
                   ELSE c
         IN IF c1.panic
            THEN c1
            ELSE update_point_y(c1, impl, dbg, point_index, new_p.y)

\* update_point on coordinates counted in a unit in which f64::EPSILON is eps
update_point_with(eps, c, impl, dbg, point_index, new_p) ==
    IF point_index >= VLen(c.points)
    THEN Panic(c)
    ELSE LET px == c.points[point_index].x
             py == c.points[point_index].y
             c1 == IF f64_gt(f64_abs(f64_sub(px, new_p.x)), eps)
                   THEN update_point_x(c, impl, dbg, point_index, new_p.x)
                   ELSE c
         IN IF c1.panic
            THEN c1
            ELSE IF f64_gt(f64_abs(f64_sub(py, new_p.y)), eps)
                 THEN update_point_y(c1, impl, dbg, point_index, new_p.y)
                 ELSE c1

update_point(c, impl, dbg, point_index, new_p) ==
    update_point_with(EPSILON, c, impl, dbg, point_index, new_p)

\* translate_point on coordinates counted in a unit in which f64::EPSILON is eps
translate_point_with(eps, c, impl, dbg, point_index, x_movement, y_movement) ==
    IF point_index >= VLen(c.points)
    THEN Panic(c)
    ELSE LET px == c.points[point_index].x
             py == c.points[point_index].y
         IN update_point_with(eps, c, impl, dbg, point_index,
                              [x |-> f64_add(px, x_movement), y |-> f64_add(py, y_movement)])

translate_point(c, impl, dbg, point_index, x_movement, y_movement) ==
    translate_point_with(EPSILON, c, impl, dbg, point_index, x_movement, y_movement)

(* --------------------------- test_world_point ------------------------- *)

None == <<"None">>

Some(j) == <<"Some", j>>

squared_distance_to(p, other) ==
    LET dx == f64_sub(p.x, other.x)
        dy == f64_sub(p.y, other.y)
    IN f64_add(f64_mul(dx, dx), f64_mul(dy, dy))

\* usize subtraction of a release build wraps: a difference d below zero is the
\* usize d + 2^w (w the width of usize), which is above every rank. The wrapped
\* value is kept as d; usize_le compares two such values as the usizes they are.
wrapping_sub(a, b) == a - b

usize_le(d, e) == IF (d < 0) = (e < 0) THEN d <= e ELSE e < 0

\* as nearer, but a candidate within the radius and at the distance of the
\* best so far is taken too
nearer_or_as_near(sq_d, min_squared_distance) ==
    f64_lt(sq_d, MAX_DISTANCE_SQ) /\ ~f64_gt(sq_d, min_squared_distance)

\* as nearer, but a candidate at exactly the initial threshold is taken too
nearer_or_at_radius(sq_d, min_squared_distance) ==
    \/ f64_lt(sq_d, min_squared_distance)
    \/ (sq_d = MAX_DISTANCE_SQ /\ min_squared_distance = MAX_DISTANCE_SQ)

\* the test a candidate must pass to replace the best so far
nearer(sq_d, min_squared_distance) == f64_lt(sq_d, min_squared_distance)

\* the loop of step 3 over the ranks other_position..end-1; indexing sorted or
\* points beyond the length panics
RECURSIVE scan_candidates(_, _, _, _, _, _, _)
scan_candidates(c, p, sorted, other_position, end, best, min_squared_distance) ==
    IF other_position >= end
    THEN best
    ELSE IF other_position >= VLen(sorted) THEN <<"panic">>
    ELSE IF sorted[other_position] >= VLen(c.points) THEN <<"panic">>
    ELSE LET other_index == sorted[other_position]
             sq_d == squared_distance_to(p, c.points[other_index])
         IN IF nearer(sq_d, min_squared_distance)
            THEN scan_candidates(c, p, sorted, other_position + 1, end,
                                 Some(other_index), sq_d)
            ELSE scan_candidates(c, p, sorted, other_position + 1, end,
                                 best, min_squared_distance)

\* steps 1 and 3 of test_world_point with the X axis taken in step 2
scan_x(c, impl, p) ==
    scan_candidates(c, p, c.sorted_x,
                    find_point_position_x(c, impl, f64_sub(p.x, MAX_DISTANCE)).v,
                    find_point_position_x(c, impl, f64_add(p.x, MAX_DISTANCE)).v,
                    None, MAX_DISTANCE_SQ)

\* steps 1 and 3 of test_world_point with the Y axis taken in step 2
scan_y(c, impl, p) ==
    scan_candidates(c, p, c.sorted_y,
                    find_point_position_y(c, impl, f64_sub(p.y, MAX_DISTANCE)).v,
                    find_point_position_y(c, impl, f64_add(p.y, MAX_DISTANCE)).v,
                    None, MAX_DISTANCE_SQ)

\* as test_world_point, but each range starts at the rank searched for the
\* upper bound and ends at the rank searched for the lower bound
test_world_point_swapped_bounds(c, impl, dbg, p) ==
    IF ~c.is_sorted
    THEN [panic |-> TRUE, ret |-> None]
    ELSE LET min_x == find_point_position_x(c, impl, f64_add(p.x, MAX_DISTANCE))
             max_x == find_point_position_x(c, impl, f64_sub(p.x, MAX_DISTANCE))
             min_y == find_point_position_y(c, impl, f64_add(p.y, MAX_DISTANCE))
             max_y == find_point_position_y(c, impl, f64_sub(p.y, MAX_DISTANCE))
             min_index_x == min_x.v
             max_index_x == max_x.v
             min_index_y == min_y.v
             max_index_y == max_y.v
         IN IF min_x.panic \/ max_x.panic \/ min_y.panic \/ max_y.panic
            THEN [panic |-> TRUE, ret |-> None]
            ELSE IF dbg /\ (max_index_x < min_index_x \/ max_index_y < min_index_y)
            THEN [panic |-> TRUE, ret |-> None]
            ELSE LET d_index_x == wrapping_sub(max_index_x, min_index_x)
                     d_index_y == wrapping_sub(max_index_y, min_index_y)
                     found == IF usize_le(d_index_x, d_index_y)
                              THEN scan_candidates(c, p, c.sorted_x, min_index_x,
                                                   max_index_x, None, MAX_DISTANCE_SQ)
                              ELSE scan_candidates(c, p, c.sorted_y, min_index_y,
                                                   max_index_y, None, MAX_DISTANCE_SQ)
                 IN IF found = <<"panic">>
                    THEN [panic |-> TRUE, ret |-> None]
                    ELSE [panic |-> FALSE, ret |-> found]

\* [panic, ret]: unwrap() panics on Err; with overflow checks (a debug build) so
\* does a subtraction below zero
test_world_point(c, impl, dbg, p) ==
    IF ~c.is_sorted
    THEN [panic |-> TRUE, ret |-> None]
    ELSE LET min_x == find_point_position_x(c, impl, f64_sub(p.x, MAX_DISTANCE))
             max_x == find_point_position_x(c, impl, f64_add(p.x, MAX_DISTANCE))
             min_y == find_point_position_y(c, impl, f64_sub(p.y, MAX_DISTANCE))
             max_y == find_point_position_y(c, impl, f64_add(p.y, MAX_DISTANCE))
             min_index_x == min_x.v
             max_index_x == max_x.v
             min_index_y == min_y.v
             max_index_y == max_y.v
         IN IF min_x.panic \/ max_x.panic \/ min_y.panic \/ max_y.panic
            THEN [panic |-> TRUE, ret |-> None]
            ELSE IF dbg /\ (max_index_x < min_index_x \/ max_index_y < min_index_y)
            THEN [panic |-> TRUE, ret |-> None]
            ELSE LET d_index_x == wrapping_sub(max_index_x, min_index_x)
                     d_index_y == wrapping_sub(max_index_y, min_index_y)
                     found == IF usize_le(d_index_x, d_index_y)
                              THEN scan_candidates(c, p, c.sorted_x, min_index_x,
                                                   max_index_x, None, MAX_DISTANCE_SQ)
                              ELSE scan_candidates(c, p, c.sorted_y, min_index_y,
                                                   max_index_y, None, MAX_DISTANCE_SQ)
                 IN IF found = <<"panic">>
                    THEN [panic |-> TRUE, ret |-> None]
                    ELSE [panic |-> FALSE, ret |-> found]

(* ------------------------------- actions ------------------------------ *)

\* call: the last call made on the cloud, how its arguments relate to the
\* cloud it was made on, the point pushed or asked for, and what it returned
Origin == [x |-> 0, y |-> 0]

Unit == <<"unit">>

Called(op, case, arg, res) == [op |-> op, case |-> case, arg |-> arg, res |-> res]

\* which coordinates of point i the point p changes: "x" the x alone, "y" the
\* y alone, "xy" both, "same" neither
UpdateCase(i, p) ==
    IF i >= VLen(points) THEN "out_of_range"
    ELSE IF points[i].x = p.x /\ points[i].y = p.y THEN "same"
    ELSE IF points[i].y = p.y THEN "x"
    ELSE IF points[i].x = p.x THEN "y"
    ELSE "xy"

\* no query's result is waiting to be taken
Idle == call.op \notin {"find_point_position_x", "find_point_position_y", "test_world_point"}

\* the fields of self after a call
Install(c) ==
    /\ points' = c.points
    /\ positions_x' = c.positions_x
    /\ positions_y' = c.positions_y
    /\ sorted_x' = c.sorted_x
    /\ sorted_y' = c.sorted_y
    /\ is_sorted' = c.is_sorted
    /\ panicked' = c.panic

\* PointCloud2D::new() or PointCloud2D::new_unsorted(), in a debug or a release
\* build, with either binary search
Init ==
    /\ points = EmptyVec
    /\ positions_x = EmptyVec
    /\ positions_y = EmptyVec
    /\ sorted_x = EmptyVec
    /\ sorted_y = EmptyVec
    /\ is_sorted \in BOOLEAN
    /\ debug_assertions \in BOOLEAN
    /\ search \in {"halving", "early"}
    /\ panicked = FALSE
    /\ call = Called("new", "new", Origin, Unit)
    /\ tools = EmptyVec
    /\ active_tool = None

PushOf(p) ==
    /\ Install(push(Self, search, debug_assertions, p))
    /\ call' = Called("push", "new", p, Unit)
    /\ UNCHANGED <<debug_assertions, search, tools, active_tool>>

UpdatePointOf(i, p) ==
    /\ Install(update_point(Self, search, debug_assertions, i, p))
    /\ call' = Called("update_point", UpdateCase(i, p), Origin, Unit)
    /\ UNCHANGED <<debug_assertions, search, tools, active_tool>>

TranslatePointOf(i, dx, dy) ==
    /\ Install(translate_point(Self, search, debug_assertions, i, dx, dy))
    /\ call' = Called("translate_point",
                      IF i >= VLen(points) THEN "out_of_range"
                      ELSE UpdateCase(i, [x |-> points[i].x + dx, y |-> points[i].y + dy]),
                      Origin, Unit)
    /\ UNCHANGED <<debug_assertions, search, tools, active_tool>>

Push ==
    /\ ~panicked
    /\ Idle
    /\ VLen(points) < MaxPoints
    /\ \E p \in Point2D : PushOf(p)

\* indices 0..n-1 name a point; n names none
UpdatePoint ==
    /\ ~panicked
    /\ Idle
    /\ \E i \in 0..VLen(points), p \in Point2D : UpdatePointOf(i, p)

\* the movements keep the coordinates within Coord
TranslatePoint ==
    /\ ~panicked
    /\ Idle
    /\ \E i \in 0..VLen(points), dx \in {0 - 1, 0, 1}, dy \in {0 - 1, 0, 1} :
         /\ i < VLen(points) => /\ points[i].x + dx \in Coord
                                /\ points[i].y + dy \in Coord
         /\ TranslatePointOf(i, dx, dy)

Next ==
    \/ Push
    \/ UpdatePoint

Spec == Init /\ [][Next]_vars

(* ------------------------------ queries ------------------------------- *)

QueryValue == (0 - QueryMargin - MAX_DISTANCE)..(MaxCoord + QueryMargin + MAX_DISTANCE)

RankResult(r) == IF r.ok THEN <<"Ok", r.v>> ELSE <<"Err">>

FindPointPositionX ==
    /\ ~panicked
    /\ Idle
    /\ \E v \in QueryValue :
         call' = Called("find_point_position_x", "query", [x |-> v, y |-> 0],
                        RankResult(find_point_position_x(Self, search, v)))
    /\ UNCHANGED <<points, positions_x, positions_y, sorted_x, sorted_y, is_sorted,
                   debug_assertions, search, panicked,
                   tools, active_tool>>

FindPointPositionY ==
    /\ ~panicked
    /\ Idle
    /\ \E v \in QueryValue :
         call' = Called("find_point_position_y", "query", [x |-> 0, y |-> v],
                        RankResult(find_point_position_y(Self, search, v)))
    /\ UNCHANGED <<points, positions_x, positions_y, sorted_x, sorted_y, is_sorted,
                   debug_assertions, search, panicked,
                   tools, active_tool>>

TestWorldPoint ==
    /\ ~panicked
    /\ Idle
    /\ \E p \in QueryPoint :
         LET r == test_world_point(Self, search, debug_assertions, p)
         IN /\ call' = Called("test_world_point", "query", p,
                              IF r.panic THEN <<"panic">> ELSE r.ret)
            /\ panicked' = r.panic
    /\ UNCHANGED <<points, positions_x, positions_y, sorted_x, sorted_y, is_sorted,
                   debug_assertions, search,
                   tools, active_tool>>

\* the caller takes the result of a query that returned
Resume ==
    /\ ~panicked
    /\ ~Idle
    /\ call' = Called("resume", "new", Origin, Unit)
    /\ UNCHANGED <<points, positions_x, positions_y, sorted_x, sorted_y, is_sorted,
                   debug_assertions, search, panicked,
                   tools, active_tool>>

NextQuery ==
    \/ Push
    \/ UpdatePoint
    \/ FindPointPositionX
    \/ FindPointPositionY
    \/ TestWorldPoint
    \/ Resume

SpecQuery == Init /\ [][NextQuery]_vars

(* ------------------------------ push only ----------------------------- *)

PushOnly ==
    /\ ~panicked
    /\ VLen(points) < MaxPushes
    /\ \E p \in Point2D : PushOf(p)

NextPush == PushOnly

SpecPush == Init /\ [][NextPush]_vars

(* --------------------------- every operation ------------------------- *)

\* most points of a cloud on which every operation is called
MaxOpsPoints == 2

UpdatePointXOf(i, v) ==
    /\ Install(update_point_x(Self, search, debug_assertions, i, v))
    /\ call' = Called("update_point_x",
                      IF i >= VLen(points) THEN "out_of_range"
                      ELSE IF points[i].x = v THEN "same" ELSE "x",
                      Origin, Unit)
    /\ UNCHANGED <<debug_assertions, search, tools, active_tool>>

UpdatePointYOf(i, v) ==
    /\ Install(update_point_y(Self, search, debug_assertions, i, v))
    /\ call' = Called("update_point_y",
                      IF i >= VLen(points) THEN "out_of_range"
                      ELSE IF points[i].y = v THEN "same" ELSE "y",
                      Origin, Unit)
    /\ UNCHANGED <<debug_assertions, search, tools, active_tool>>

PushOps ==
    /\ ~panicked
    /\ VLen(points) < MaxOpsPoints
    /\ \E p \in Point2D : PushOf(p)

UpdatePointOps ==
    /\ ~panicked
    /\ \E i \in 0..VLen(points), p \in Point2D : UpdatePointOf(i, p)

UpdatePointX ==
    /\ ~panicked
    /\ \E i \in 0..VLen(points), v \in Coord : UpdatePointXOf(i, v)

UpdatePointY ==
    /\ ~panicked
    /\ \E i \in 0..VLen(points), v \in Coord : UpdatePointYOf(i, v)

NextOps ==
    \/ PushOps
    \/ UpdatePointOps
    \/ UpdatePointX
    \/ UpdatePointY
    \/ TranslatePoint

SpecOps == Init /\ [][NextOps]_vars

(* ------------------------ one axis at a time -------------------------- *)

NextAxes ==
    \/ Push
    \/ UpdatePointX
    \/ UpdatePointY

SpecAxes == Init /\ [][NextAxes]_vars

(* ----------------------- the Y axis alone changes --------------------- *)

NextY ==
    \/ Push
    \/ UpdatePointY

SpecY == Init /\ [][NextY]_vars

(* ------------------- coordinates one EPSILON apart -------------------- *)

\* Coordinates counted in units of f64::EPSILON = 2^-52: the values
\* 0..MaxFine of this unit and their differences are exact in f64.
MaxFine == 2

\* f64::EPSILON in its own unit
FINE_EPSILON == 1

\* most points of a cloud with such coordinates
MaxFinePoints == 2

FineCoord == 0..MaxFine

FinePoint == [x : FineCoord, y : FineCoord]

PushFine ==
    /\ ~panicked
    /\ VLen(points) < MaxFinePoints
    /\ \E p \in FinePoint : PushOf(p)

UpdatePointFineOf(i, p) ==
    /\ Install(update_point_with(FINE_EPSILON, Self, search, debug_assertions, i, p))
    /\ call' = Called("update_point", UpdateCase(i, p), p, Unit)
    /\ UNCHANGED <<debug_assertions, search, tools, active_tool>>

UpdatePointFine ==
    /\ ~panicked
    /\ \E i \in 0..VLen(points), p \in FinePoint : UpdatePointFineOf(i, p)

TranslatePointFineOf(i, dx, dy) ==
    /\ Install(translate_point_with(FINE_EPSILON, Self, search, debug_assertions, i, dx, dy))
    /\ call' = Called("translate_point",
                      IF i >= VLen(points) THEN "out_of_range"
                      ELSE UpdateCase(i, [x |-> points[i].x + dx, y |-> points[i].y + dy]),
                      [x |-> dx, y |-> dy], Unit)
    /\ UNCHANGED <<debug_assertions, search, tools, active_tool>>

\* the movements keep the coordinates within FineCoord
TranslatePointFine ==
    /\ ~panicked
    /\ \E i \in 0..VLen(points), dx \in {0 - 1, 0, 1}, dy \in {0 - 1, 0, 1} :
         /\ i < VLen(points) => /\ points[i].x + dx \in FineCoord
                                /\ points[i].y + dy \in FineCoord
         /\ TranslatePointFineOf(i, dx, dy)

NextFine ==
    \/ PushFine
    \/ UpdatePointFine
    \/ TranslatePointFine

SpecFine == Init /\ [][NextFine]_vars

(* ------------------------- coordinates that are NaN ------------------- *)

\* most points of a cloud that is given NaN coordinates
MaxNaNPoints == 2

NaNCoord == Coord \cup {NaN}

NaNPoint == [x : NaNCoord, y : NaNCoord]

PushNaN ==
    /\ ~panicked
    /\ VLen(points) < MaxNaNPoints
    /\ \E p \in NaNPoint : PushOf(p)

UpdatePointNaNOf(i, p) ==
    /\ Install(update_point(Self, search, debug_assertions, i, p))
    /\ call' = Called("update_point", UpdateCase(i, p), p, Unit)
    /\ UNCHANGED <<debug_assertions, search, tools, active_tool>>

UpdatePointNaN ==
    /\ ~panicked
    /\ \E i \in 0..VLen(points), p \in NaNPoint : UpdatePointNaNOf(i, p)

NextNaN ==
    \/ PushNaN
    \/ UpdatePointNaN

SpecNaN == Init /\ [][NextNaN]_vars

(* ------------------------------- ToolBox ------------------------------ *)

\* the struct ToolBox<T>
ToolBoxSelf == [tools |-> tools, active_tool |-> active_tool]

\* ToolBox::new(): no tool and none selected; it does not fail
ToolBox_new == [tools |-> EmptyVec, active_tool |-> None]

\* [panic, v]: the index of the tool that is given the event. A selected index
\* is returned as it is; panic!("ToolBox has no tools!") when none is selected
\* and there is no tool
get_active_tool(t) ==
    IF t.active_tool # None
    THEN [panic |-> FALSE, v |-> t.active_tool[2]]
    ELSE IF VLen(t.tools) = 0
         THEN [panic |-> TRUE, v |-> 0]
         ELSE [panic |-> FALSE, v |-> 0]

\* the body the four event methods share: get_active_tool, then the method of
\* the same name on self.tools[i]; indexing beyond the length panics
tool_event(t, event) ==
    LET i == get_active_tool(t)
    IN IF i.panic
       THEN [tools |-> t.tools, panic |-> TRUE, res |-> <<"panic", "ToolBox has no tools!">>]
       ELSE IF i.v >= VLen(t.tools)
       THEN [tools |-> t.tools, panic |-> TRUE, res |-> <<"panic", "index out of bounds">>]
       ELSE [tools |-> [t.tools EXCEPT ![i.v] = Append(@, event)],
             panic |-> FALSE, res |-> Some(i.v)]

onmousemove(t) == tool_event(t, "onmousemove")

onmouseup(t) == tool_event(t, "onmouseup")

onmousedown(t) == tool_event(t, "onmousedown")

onwheel(t) == tool_event(t, "onwheel")

\* the values of the struct: up to MaxTools tools that have received nothing
\* yet, and no index or any index selected. The fields are private and the
\* file has no method that adds a tool or selects one, so the values are
\* enumerated; ToolBox::new() makes the first of them.
ToolVectors == {[i \in 0..(n - 1) |-> <<>>] : n \in 0..MaxTools}

Selections == {None} \cup {Some(i) : i \in 0..MaxTools}

InitToolBox ==
    /\ points = EmptyVec
    /\ positions_x = EmptyVec
    /\ positions_y = EmptyVec
    /\ sorted_x = EmptyVec
    /\ sorted_y = EmptyVec
    /\ is_sorted = TRUE
    /\ debug_assertions = TRUE
    /\ search = "halving"
    /\ panicked = FALSE
    /\ call = Called("new", "new", Origin, Unit)
    /\ tools \in ToolVectors
    /\ active_tool \in Selections

ToolBoxNew ==
    /\ ~panicked
    /\ tools' = ToolBox_new.tools
    /\ active_tool' = ToolBox_new.active_tool
    /\ call' = Called("ToolBox::new", "new", Origin, Unit)
    /\ UNCHANGED <<points, positions_x, positions_y, sorted_x, sorted_y, is_sorted,
                   debug_assertions, search, panicked>>

\* the toolbox is given an event; r is what the method does
Event(op, r) ==
    /\ \A i \in DOMAIN tools : Len(tools[i]) < MaxEvents
    /\ tools' = r.tools
    /\ panicked' = r.panic
    /\ call' = Called(op, "event", Origin, r.res)
    /\ UNCHANGED <<points, positions_x, positions_y, sorted_x, sorted_y, is_sorted,
                   debug_assertions, search, active_tool>>

OnMouseMove ==
    /\ ~panicked
    /\ Event("onmousemove", onmousemove(ToolBoxSelf))

OnMouseUp ==
    /\ ~panicked
    /\ Event("onmouseup", onmouseup(ToolBoxSelf))

OnMouseDown ==
    /\ ~panicked
    /\ Event("onmousedown", onmousedown(ToolBoxSelf))

OnWheel ==
    /\ ~panicked
    /\ Event("onwheel", onwheel(ToolBoxSelf))

NextToolBox ==
    \/ ToolBoxNew
    \/ OnMouseMove
    \/ OnMouseUp
    \/ OnMouseDown
    \/ OnWheel

SpecToolBox == InitToolBox /\ [][NextToolBox]_vars

(* ======================================================================= *)
(*                               properties                                *)
(* ======================================================================= *)

NumPoints == VLen(points)

Stable == 0..(NumPoints - 1)

\* the order of one axis is non-decreasing
NonDecreasingX ==
    \A r \in DOMAIN sorted_x :
        r + 1 < VLen(sorted_x) => points[sorted_x[r]].x <= points[sorted_x[r + 1]].x

NonDecreasingY ==
    \A r \in DOMAIN sorted_y :
        r + 1 < VLen(sorted_y) => points[sorted_y[r]].y <= points[sorted_y[r + 1]].y

\* sorted is a permutation of 0..n-1 and positions is its inverse
InversePermutations(positions, sorted) ==
    /\ DOMAIN sorted = Stable
    /\ DOMAIN positions = Stable
    /\ \A i \in Stable : \E r \in Stable : sorted[r] = i
    /\ \A i \in Stable : positions[i] \in Stable /\ sorted[positions[i]] = i

\* C1: in maintained mode, after every push and update_point that returns,
\* the points read in the order of sorted_x have non-decreasing x and the
\* points read in the order of sorted_y have non-decreasing y.
C1_AxisOrderNonDecreasing ==
    (is_sorted /\ ~panicked) => (NonDecreasingX /\ NonDecreasingY)

\* C2: in maintained mode, after every push and update_point, the five
\* vectors have the same length n, sorted_x and sorted_y are permutations of
\* 0..n-1, and positions_x, positions_y are their inverses.
C2_LengthsAndInversePermutations ==
    is_sorted =>
        /\ VLen(positions_x) = NumPoints
        /\ VLen(positions_y) = NumPoints
        /\ VLen(sorted_x) = NumPoints
        /\ VLen(sorted_y) = NumPoints
        /\ InversePermutations(positions_x, sorted_x)
        /\ InversePermutations(positions_y, sorted_y)

\* a full cloud whose last update moved a point on both axes, off the identity
C2_Witness ==
    /\ is_sorted
    /\ ~panicked
    /\ NumPoints = MaxPoints
    /\ call.op = "update_point"
    /\ call.case = "xy"
    /\ \E i \in Stable : sorted_x[i] # i
    /\ \E i \in Stable : sorted_y[i] # i
    /\ sorted_x # sorted_y

(* ------------------------------ queries ------------------------------- *)

\* the points strictly nearer to p than MAX_DISTANCE
Within(p) == {j \in Stable : squared_distance_to(p, points[j]) < MAX_DISTANCE_SQ}

\* j is a point within MAX_DISTANCE of p and no point is nearer to p
Nearest(p, j) ==
    /\ j \in Within(p)
    /\ \A k \in Stable :
          squared_distance_to(p, points[j]) <= squared_distance_to(p, points[k])

\* the cloud passes every assertion of the consistency check
Consistent == check_consistency(Self)

\* the number of points whose coordinate on the axis is at most v
CountAtMostX(v) == Cardinality({j \in Stable : points[j].x <= v})

CountAtMostY(v) == Cardinality({j \in Stable : points[j].y <= v})

\* C3: in maintained mode, in every state reached by push and update_point,
\* test_world_point(p) returns Some(j) for a point j nearest to p among those
\* within MAX_DISTANCE of p, and None exactly when no point is within
\* MAX_DISTANCE of p.
C3_NearestWithinRadius ==
    (is_sorted /\ call.op = "test_world_point") =>
        IF Within(call.arg) = {}
        THEN call.res = None
        ELSE \E j \in Stable : call.res = Some(j) /\ Nearest(call.arg, j)

\* C4: on every consistent maintained cloud, find_point_position_x(v) is the
\* number of points with x <= v and find_point_position_y(v) the number of
\* points with y <= v: the rank after the last point equal to v.
C4_UpperBound ==
    (is_sorted /\ Consistent) =>
        /\ call.op = "find_point_position_x" =>
              call.res = <<"Ok", CountAtMostX(call.arg.x)>>
        /\ call.op = "find_point_position_y" =>
              call.res = <<"Ok", CountAtMostY(call.arg.y)>>

\* C5: in maintained mode, on every reachable cloud of n points,
\* find_point_position_x and find_point_position_y return a rank in 0..n.
C5_RankWithinLength ==
    (is_sorted /\ call.op \in {"find_point_position_x", "find_point_position_y"}) =>
        /\ call.res[1] = "Ok"
        /\ call.res[2] \in 0..NumPoints

\* a search past every point of a full cloud whose X order is broken answers n
C5_Witness ==
    /\ is_sorted
    /\ NumPoints = MaxPoints
    /\ ~NonDecreasingX
    /\ call.op = "find_point_position_x"
    /\ call.res = <<"Ok", NumPoints>>

\* C6: on an empty maintained cloud find_point_position_x and
\* find_point_position_y return 0 for every value and test_world_point
\* returns None for every point.
C6_EmptyCloud ==
    (is_sorted /\ NumPoints = 0) =>
        /\ call.op \in {"find_point_position_x", "find_point_position_y"} =>
              call.res = <<"Ok", 0>>
        /\ call.op = "test_world_point" => call.res = None

\* the empty maintained cloud was asked for a point away from the origin
C6_Witness ==
    /\ is_sorted
    /\ NumPoints = 0
    /\ call.op = "test_world_point"
    /\ call.arg = [x |-> MaxCoord, y |-> 0 - QueryMargin]
    /\ call.res = None

(* ------------------------------ mutations ----------------------------- *)

\* C7: in every reachable maintained state and for every index i,
\* update_point(i, points[i]) leaves the points and the four permutation
\* vectors as they were.
C7_UpdateWithSamePointIsNoOp ==
    [][(is_sorted /\ call'.op = "update_point" /\ call'.case = "same") =>
           UNCHANGED <<points, positions_x, positions_y, sorted_x, sorted_y>>]_vars

\* update_point was called with the stored point on a full cloud with ties on
\* both axes
C7_Witness ==
    /\ is_sorted
    /\ ~panicked
    /\ NumPoints = MaxPoints
    /\ call.op = "update_point"
    /\ call.case = "same"
    /\ \E i, j \in Stable : i # j /\ points[i] = points[j]

\* what push(p) does to one axis of a cloud of n points, r being the rank
\* searched for p: n stands at rank r, the ranks below r keep their index and
\* those from r on move up by one; the positions below r are kept, those from
\* r on rise by one, and the position of n is r
InsertedAt(r, positions, sorted, positions_after, sorted_after) ==
    /\ DOMAIN sorted_after = 0..NumPoints
    /\ DOMAIN positions_after = 0..NumPoints
    /\ sorted_after[r] = NumPoints
    /\ \A k \in Stable : sorted_after[IF k < r THEN k ELSE k + 1] = sorted[k]
    /\ \A j \in Stable :
          positions_after[j] = IF positions[j] >= r THEN positions[j] + 1 ELSE positions[j]
    /\ positions_after[NumPoints] = r

\* C8: push(p) on a consistent maintained cloud of n points stores p at index
\* n and, on each axis, inserts n at the rank r searched for p: sorted[r..]
\* moves right by one, every position >= r rises by one, the positions below
\* r are kept, and the position of n is r.
C8_PushInserts ==
    [][(is_sorted /\ Consistent /\ call'.op = "push") =>
           /\ ~panicked'
           /\ DOMAIN points' = 0..NumPoints
           /\ points'[NumPoints] = call'.arg
           /\ \A j \in Stable : points'[j] = points[j]
           /\ InsertedAt(find_point_position_x(Self, search, call'.arg.x).v,
                         positions_x, sorted_x, positions_x', sorted_x')
           /\ InsertedAt(find_point_position_y(Self, search, call'.arg.y).v,
                         positions_y, sorted_y, positions_y', sorted_y')]_vars

\* the last push filled the cloud, put its point first on X and in the middle
\* on Y
C8_Witness ==
    /\ is_sorted
    /\ ~panicked
    /\ call.op = "push"
    /\ NumPoints = MaxPoints
    /\ positions_x[NumPoints - 1] = 0
    /\ positions_y[NumPoints - 1] \in 1..(NumPoints - 2)

\* C9: after pushes only, two points with the same coordinate on an axis stand
\* on that axis in the order of their indices, and a point pushed with a
\* coordinate below every stored one has rank 0.
C9_EqualValuesKeepInsertionOrder ==
    is_sorted =>
        \A i, j \in Stable :
            /\ (i < j /\ points[i].x = points[j].x) => positions_x[i] < positions_x[j]
            /\ (i < j /\ points[i].y = points[j].y) => positions_y[i] < positions_y[j]
            /\ (j = NumPoints - 1 /\ \A k \in 0..(j - 1) : points[j].x < points[k].x)
                  => positions_x[j] = 0
            /\ (j = NumPoints - 1 /\ \A k \in 0..(j - 1) : points[j].y < points[k].y)
                  => positions_y[j] = 0

\* C10: an update_point that keeps the y of the point leaves sorted_y and
\* positions_y as they were, and one that keeps the x leaves sorted_x and
\* positions_x as they were.
C10_OtherAxisUntouched ==
    [][call'.op = "update_point" =>
           /\ call'.case \in {"x", "same"} => UNCHANGED <<sorted_y, positions_y>>
           /\ call'.case \in {"y", "same"} => UNCHANGED <<sorted_x, positions_x>>]_vars

\* an update_point changed the x alone of a point of a full cloud whose points
\* all had the same y, and the X order moved off the identity
C10_Witness ==
    /\ is_sorted
    /\ ~panicked
    /\ NumPoints = MaxPoints
    /\ call.op = "update_point"
    /\ call.case = "x"
    /\ \A i, j \in Stable : points[i].y = points[j].y
    /\ \E r \in Stable : sorted_x[r] # r

(* --------------------------- axis independence ------------------------ *)

\* the order pushes give to the values vs: by value, equal values by index
StableRank(vs, j) ==
    Cardinality({k \in DOMAIN vs : vs[k] < vs[j] \/ (vs[k] = vs[j] /\ k < j)})

\* the cloud with the X data of self whose points have the y values ys, its Y
\* vectors ordering them as pushes do
TwinY(ys) ==
    [Self EXCEPT
        !.points = [j \in DOMAIN points |-> [x |-> points[j].x, y |-> ys[j]]],
        !.positions_y = [j \in DOMAIN points |-> StableRank(ys, j)],
        !.sorted_y = [r \in DOMAIN points |->
                        CHOOSE j \in DOMAIN points : StableRank(ys, j) = r]]

\* the cloud with the Y data of self whose points have the x values xs
TwinX(xs) ==
    [Self EXCEPT
        !.points = [j \in DOMAIN points |-> [x |-> xs[j], y |-> points[j].y]],
        !.positions_x = [j \in DOMAIN points |-> StableRank(xs, j)],
        !.sorted_x = [r \in DOMAIN points |->
                        CHOOSE j \in DOMAIN points : StableRank(xs, j) = r]]

\* both calls returned and left the same X vectors / the same Y vectors
SameXAfter(t) ==
    (~panicked' /\ ~t.panic) => (t.sorted_x = sorted_x' /\ t.positions_x = positions_x')

SameYAfter(t) ==
    (~panicked' /\ ~t.panic) => (t.sorted_y = sorted_y' /\ t.positions_y = positions_y')

\* C11: the X vectors that push and update_point leave depend on the x values
\* and the X vectors alone: the same push, or the same move along X, on a
\* cloud with the same X data and other y values leaves the same sorted_x and
\* positions_x; and the same holds for the Y vectors with X and Y exchanged.
C11_AxesDoNotInteract ==
    [][/\ \A p \in Point2D : (is_sorted /\ PushOf(p)) =>
             /\ \A ys \in [Stable -> Coord], y \in Coord :
                   SameXAfter(push(TwinY(ys), search, debug_assertions,
                                   [x |-> p.x, y |-> y]))
             /\ \A xs \in [Stable -> Coord], x \in Coord :
                   SameYAfter(push(TwinX(xs), search, debug_assertions,
                                   [x |-> x, y |-> p.y]))
       /\ \A i \in Stable, p \in Point2D : (is_sorted /\ UpdatePointOf(i, p)) =>
             /\ points[i].y = p.y =>
                   \A ys \in [Stable -> Coord] :
                       SameXAfter(update_point(TwinY(ys), search, debug_assertions, i,
                                               [x |-> p.x, y |-> ys[i]]))
             /\ points[i].x = p.x =>
                   \A xs \in [Stable -> Coord] :
                       SameYAfter(update_point(TwinX(xs), search, debug_assertions, i,
                                               [x |-> xs[i], y |-> p.y]))]_vars

(* ------------------------------ the points ---------------------------- *)

\* C12: whenever update_point(i, q) returns, for an index i of the cloud and
\* any point q, the point stored at i is q and every other stored point is as
\* it was.
C12_UpdateStoresThePoint ==
    [][\A i \in Stable, q \in FinePoint :
          (UpdatePointFineOf(i, q) /\ ~panicked') =>
              /\ DOMAIN points' = DOMAIN points
              /\ points'[i] = q
              /\ \A j \in Stable : j # i => points'[j] = points[j]]_vars

\* every stored point but that of index i is as it was
OthersKept(i) == \A j \in Stable : j # i => points'[j] = points[j]

\* C13: push stores its point at the index n = the number of points before
\* the call and keeps the points 0..n-1; no other operation changes the
\* number of points; and update_point, update_point_x, update_point_y and
\* translate_point of index i keep every stored point but that of i.
C13_StableIndicesArePermanent ==
    [][/\ call'.op = "push" =>
             /\ DOMAIN points' = 0..NumPoints
             /\ points'[NumPoints] = call'.arg
             /\ \A j \in Stable : points'[j] = points[j]
       /\ call'.op # "push" => DOMAIN points' = DOMAIN points
       /\ call'.op = "update_point" =>
             \A i \in 0..NumPoints, p \in Point2D : UpdatePointOf(i, p) => OthersKept(i)
       /\ call'.op = "update_point_x" =>
             \A i \in 0..NumPoints, v \in Coord : UpdatePointXOf(i, v) => OthersKept(i)
       /\ call'.op = "update_point_y" =>
             \A i \in 0..NumPoints, v \in Coord : UpdatePointYOf(i, v) => OthersKept(i)
       /\ call'.op = "translate_point" =>
             \A i \in 0..NumPoints, dx \in {0 - 1, 0, 1}, dy \in {0 - 1, 0, 1} :
                 TranslatePointOf(i, dx, dy) => OthersKept(i)]_vars

\* the last push filled the cloud: its point is stored last and ranks first
\* on both axes
C13_Witness ==
    /\ is_sorted
    /\ ~panicked
    /\ call.op = "push"
    /\ NumPoints = MaxOpsPoints
    /\ points[NumPoints - 1] = call.arg
    /\ sorted_x[0] = NumPoints - 1
    /\ sorted_y[0] = NumPoints - 1

(* -------------------------- unmaintained mode ------------------------- *)

\* C14: on a cloud made by new_unsorted, in every reachable state and for
\* every argument, find_point_position_x and find_point_position_y return
\* Err and test_world_point does not return: none of them gives a rank or an
\* Option.
C14_UnmaintainedQueriesFail ==
    ~is_sorted =>
        /\ call.op \in {"find_point_position_x", "find_point_position_y"} =>
              call.res = <<"Err">>
        /\ call.op = "test_world_point" => (call.res = <<"panic">> /\ panicked)

\* test_world_point was asked for a stored point of a full unmaintained cloud
C14_Witness ==
    /\ ~is_sorted
    /\ NumPoints = MaxPoints
    /\ call.op = "test_world_point"
    /\ \E j \in Stable : points[j] = call.arg
    /\ call.res = <<"panic">>

\* C15: find_point_position_x, find_point_position_y and test_world_point on
\* an unmaintained cloud do not panic: the caller gets a value that says the
\* call failed, and the cloud is as it was.
C15_UnmaintainedQueryIsRecoverable ==
    [][(~is_sorted /\ call'.op \in {"find_point_position_x", "find_point_position_y",
                                    "test_world_point"}) =>
           /\ ~panicked'
           /\ call'.res # <<"panic">>
           /\ call'.op # "test_world_point" => call'.res = <<"Err">>
           /\ UNCHANGED <<points, positions_x, positions_y, sorted_x, sorted_y,
                          is_sorted>>]_vars

(* ------------------------- indices out of range ----------------------- *)

\* C16: update_point, update_point_x, update_point_y and translate_point
\* called with an index that names no point (index >= number of points) do
\* not panic, and leave the points and the four permutation vectors as they
\* were.
C16_OutOfRangeIsRecoverable ==
    [][(call'.op \in {"update_point", "update_point_x", "update_point_y",
                      "translate_point"}
        /\ call'.case = "out_of_range") =>
           /\ ~panicked'
           /\ UNCHANGED <<points, positions_x, positions_y, sorted_x, sorted_y>>]_vars

(* ---------------------------------- NaN ------------------------------- *)

HasNaN(p) == IsNaN(p.x) \/ IsNaN(p.y)

\* C17: every push and every update_point of a point of the cloud whose
\* argument has a NaN x or y panics, in every state, the empty cloud
\* included; so no call returns with a NaN coordinate stored.
C17_NaNIsFatal ==
    [][/\ (call'.op \in {"push", "update_point"} /\ call'.case # "out_of_range"
           /\ HasNaN(call'.arg)) => panicked'
       /\ ~panicked' => \A j \in DOMAIN points' : ~HasNaN(points'[j])]_vars

(* ----------------------------- the axis scanned ----------------------- *)

\* C18 as stated: on every consistent maintained cloud and for every query
\* point, the scan of the X candidates and the scan of the Y candidates return
\* the same value, the same Some(index) or None.
C18_SameValueOnEitherAxis ==
    (is_sorted /\ Consistent /\ call.op = "test_world_point") =>
        scan_x(Self, search, call.arg) = scan_y(Self, search, call.arg)

\* two answers that are both None, or both a point at the same distance of p
SameDistance(p, a, b) ==
    \/ a = None /\ b = None
    \/ /\ a[1] = "Some"
       /\ b[1] = "Some"
       /\ squared_distance_to(p, points[a[2]]) = squared_distance_to(p, points[b[2]])

\* C18, amended: on every consistent maintained cloud and for every query
\* point, the scan of the X candidates and the scan of the Y candidates both
\* return None or both return a point at the same distance of the query
\* point, a nearest one; the index is the same when one point alone is
\* nearest, and test_world_point returns one of the two answers.
C18_SameDistanceOnEitherAxis ==
    (is_sorted /\ Consistent /\ call.op = "test_world_point") =>
        LET a == scan_x(Self, search, call.arg)
            b == scan_y(Self, search, call.arg)
        IN /\ SameDistance(call.arg, a, b)
           /\ a # None => Nearest(call.arg, a[2]) /\ Nearest(call.arg, b[2])
           /\ Cardinality({j \in Stable : Nearest(call.arg, j)}) = 1 => a = b
           /\ ~panicked => call.res \in {a, b}

\* the two scans of a consistent full cloud answered two points, equally near
C18_Witness ==
    /\ is_sorted
    /\ Consistent
    /\ ~panicked
    /\ NumPoints = MaxPoints
    /\ call.op = "test_world_point"
    /\ scan_x(Self, search, call.arg) # scan_y(Self, search, call.arg)
    /\ scan_x(Self, search, call.arg) # None
    /\ scan_y(Self, search, call.arg) # None

(* --------------------------- the consistency check -------------------- *)

\* invariants 1-4: the five vectors have one length, sorted_x and sorted_y
\* are permutations of the indices, positions_x and positions_y are their
\* inverses, and each axis order is non-decreasing
Invariants1to4 ==
    /\ VLen(positions_x) = NumPoints
    /\ VLen(positions_y) = NumPoints
    /\ VLen(sorted_x) = NumPoints
    /\ VLen(sorted_y) = NumPoints
    /\ InversePermutations(positions_x, sorted_x)
    /\ InversePermutations(positions_y, sorted_y)
    /\ NonDecreasingX
    /\ NonDecreasingY

\* C19: in a debug build and in maintained mode, a push, update_point,
\* update_point_x, update_point_y or translate_point on a point of the cloud
\* panics exactly when the state it has made violates one of invariants 1-4:
\* it returns on every state that satisfies them and returns no state that
\* violates one.
C19_DebugCheckAbortsExactlyOnViolation ==
    [][(debug_assertions /\ is_sorted
        /\ call'.op \in {"push", "update_point", "update_point_x", "update_point_y",
                         "translate_point"}
        /\ call'.case # "out_of_range") =>
           (panicked' <=> ~Invariants1to4')]_vars

\* in a debug build update_point_x has panicked on a full cloud whose X order
\* it has left decreasing
C19_Witness ==
    /\ debug_assertions
    /\ is_sorted
    /\ panicked
    /\ call.op = "update_point_x"
    /\ NumPoints = MaxOpsPoints
    /\ InversePermutations(positions_x, sorted_x)
    /\ ~NonDecreasingX

(* --------------------- unmaintained mode, mutations ------------------- *)

NoPermutations ==
    /\ positions_x = EmptyVec
    /\ positions_y = EmptyVec
    /\ sorted_x = EmptyVec
    /\ sorted_y = EmptyVec

\* C20: on a cloud made by new_unsorted the four permutation vectors are
\* empty after every push, update_point and translate_point; push appends its
\* point and changes nothing else; update_point of a point of the cloud
\* stores the coordinates it is given, and translate_point the moved
\* coordinates; and none of these calls panics.
C20_UnmaintainedMutations ==
    [][~is_sorted =>
        /\ NoPermutations'
        /\ call'.op = "push" =>
              /\ ~panicked'
              /\ DOMAIN points' = 0..NumPoints
              /\ points'[NumPoints] = call'.arg
              /\ \A j \in Stable : points'[j] = points[j]
        /\ call'.op = "update_point" =>
              \A i \in Stable, q \in FinePoint : UpdatePointFineOf(i, q) =>
                  /\ ~panicked'
                  /\ points' = [points EXCEPT ![i] = q]
        /\ call'.op = "translate_point" =>
              \A i \in Stable, dx \in {0 - 1, 0, 1}, dy \in {0 - 1, 0, 1} :
                  TranslatePointFineOf(i, dx, dy) =>
                      /\ ~panicked'
                      /\ points' = [points EXCEPT ![i] = [x |-> points[i].x + dx,
                                                          y |-> points[i].y + dy]]]_vars

(* ------------------------------ reposition ---------------------------- *)

\* the vector v without its element of rank k
RemoveAt(v, k) == [r \in 0..(VLen(v) - 2) |-> IF r < k THEN v[r] ELSE v[r + 1]]

\* the vector v with e put at rank k, the elements from k on one rank further
InsertAt(v, k, e) ==
    [r \in 0..VLen(v) |-> IF r < k THEN v[r] ELSE IF r = k THEN e ELSE v[r - 1]]

\* where a point of rank old goes when the rank searched for its value is cand
Destination(old, cand) == IF cand > old THEN cand - 1 ELSE cand

\* point i is taken out of its rank and put back at the destination of cand:
\* its position is the destination d, the positions between the old one and d
\* (d included) move by one toward the old one, the others are kept, and
\* sorted is the old one with i removed and put back at rank d
Repositioned(i, cand, positions, sorted, positions_after, sorted_after) ==
    LET old == positions[i]
        d == Destination(old, cand)
    IN /\ DOMAIN positions_after = DOMAIN positions
       /\ positions_after[i] = d
       /\ \A j \in DOMAIN positions : j # i =>
             positions_after[j] =
                 IF old < positions[j] /\ positions[j] <= d THEN positions[j] - 1
                 ELSE IF d <= positions[j] /\ positions[j] < old THEN positions[j] + 1
                 ELSE positions[j]
       /\ sorted_after = InsertAt(RemoveAt(sorted, old), d, i)

\* C21: an update_point that returns repositions the point on each axis whose
\* coordinate it changes as a removal and a reinsertion: with old the rank of
\* the point and cand the rank the operation searched, the point goes to d =
\* cand - 1 if cand > old and to d = cand otherwise (nothing moves when cand =
\* old); positions[i] = d, the positions between old and d (d included) move
\* by one toward old, the others are kept, and sorted is the old sequence
\* with i removed and reinserted at rank d.
C21_RepositionIsRemoveAndReinsert ==
    [][(is_sorted /\ call'.op = "update_point" /\ ~panicked') =>
          \A i \in Stable, p \in Point2D : UpdatePointOf(i, p) =>
              /\ points[i].x # p.x =>
                    Repositioned(i, find_point_position_y(Self, search, p.x).v,
                                 positions_x, sorted_x, positions_x', sorted_x')
              /\ points[i].y # p.y =>
                    Repositioned(i, find_point_position_y(Self, search, p.y).v,
                                 positions_y, sorted_y, positions_y', sorted_y')]_vars

\* an update_point has moved point 0 of a full cloud from the first rank on Y
\* to the last, past the two other points
C21_Witness ==
    /\ is_sorted
    /\ ~panicked
    /\ NumPoints = MaxPoints
    /\ call.op = "update_point"
    /\ call.case = "y"
    /\ sorted_y[NumPoints - 1] = 0
    /\ \A j \in Stable : j # 0 => points[j].y = 0
    /\ points[0].y = MaxCoord
    /\ positions_y[1] < positions_y[2]

\* C22: in maintained mode, update_point_x and update_point_y of a point of
\* the cloud never index sorted or positions beyond the last rank, whatever
\* rank they searched, the rank n included: the only panic of such a call
\* is that of the consistency check of a debug build, on a state that
\* violates the invariants.
C22_DestinationWithinTheVector ==
    [][(is_sorted /\ call'.op \in {"update_point_x", "update_point_y"}
        /\ call'.case # "out_of_range") =>
           (panicked' => (debug_assertions /\ ~Invariants1to4'))]_vars

\* update_point_y, having searched the rank n for a value above every other,
\* has put point 0 of a full cloud at the last rank
C22_Witness ==
    /\ is_sorted
    /\ ~panicked
    /\ NumPoints = MaxPoints
    /\ call.op = "update_point_y"
    /\ call.case = "y"
    /\ positions_y[0] = NumPoints - 1
    /\ \A j \in Stable : j # 0 => points[j].y < points[0].y

(* --------------------------- the candidate window --------------------- *)

\* the ranks min..max-1 that test_world_point(p) computes on each axis
WindowX(p) ==
    find_point_position_x(Self, search, f64_sub(p.x, MAX_DISTANCE)).v ..
        (find_point_position_x(Self, search, f64_add(p.x, MAX_DISTANCE)).v - 1)

WindowY(p) ==
    find_point_position_y(Self, search, f64_sub(p.y, MAX_DISTANCE)).v ..
        (find_point_position_y(Self, search, f64_add(p.y, MAX_DISTANCE)).v - 1)

\* the ranks of the points whose coordinate satisfies In
RanksX(In(_)) == {positions_x[j] : j \in {k \in Stable : In(points[k].x)}}

RanksY(In(_)) == {positions_y[j] : j \in {k \in Stable : In(points[k].y)}}

\* C23 as stated: in a consistent maintained cloud the ranks min_x..max_x-1
\* that test_world_point(p) computes are those of the points with x in
\* [p.x - R, p.x + R), the lower bound included and the upper excluded, and
\* likewise on the Y axis.
C23_WindowIsLowerClosedUpperOpen ==
    (is_sorted /\ Consistent /\ call.op = "test_world_point") =>
        LET p == call.arg
            InX(v) == p.x - MAX_DISTANCE <= v /\ v < p.x + MAX_DISTANCE
            InY(v) == p.y - MAX_DISTANCE <= v /\ v < p.y + MAX_DISTANCE
        IN /\ WindowX(p) = RanksX(InX)
           /\ WindowY(p) = RanksY(InY)

\* C23, amended: in a consistent maintained cloud the ranks min_x..max_x-1
\* that test_world_point(p) computes hold every point with x strictly between
\* p.x - R and p.x + R and no point with x outside [p.x - R, p.x + R]; when
\* the binary search finds the last of several equal values they are exactly
\* the ranks of the points with x in (p.x - R, p.x + R], the lower bound
\* excluded and the upper included; and likewise on the Y axis.
C23_WindowIsLowerOpenUpperClosed ==
    (is_sorted /\ Consistent /\ call.op = "test_world_point") =>
        LET p == call.arg
            InsideX(v) == p.x - MAX_DISTANCE < v /\ v < p.x + MAX_DISTANCE
            InsideY(v) == p.y - MAX_DISTANCE < v /\ v < p.y + MAX_DISTANCE
            AroundX(v) == p.x - MAX_DISTANCE <= v /\ v <= p.x + MAX_DISTANCE
            AroundY(v) == p.y - MAX_DISTANCE <= v /\ v <= p.y + MAX_DISTANCE
            InX(v) == p.x - MAX_DISTANCE < v /\ v <= p.x + MAX_DISTANCE
            InY(v) == p.y - MAX_DISTANCE < v /\ v <= p.y + MAX_DISTANCE
        IN /\ RanksX(InsideX) \subseteq WindowX(p)
           /\ WindowX(p) \subseteq RanksX(AroundX)
           /\ RanksY(InsideY) \subseteq WindowY(p)
           /\ WindowY(p) \subseteq RanksY(AroundY)
           /\ search = "halving" =>
                 /\ WindowX(p) = RanksX(InX)
                 /\ WindowY(p) = RanksY(InY)

\* test_world_point was asked, on a consistent full cloud, for a point that
\* has a stored point at p.x + R, inside the window, and one at p.y - R,
\* outside the window
C23_Witness ==
    /\ is_sorted
    /\ Consistent
    /\ ~panicked
    /\ NumPoints = MaxPoints
    /\ call.op = "test_world_point"
    /\ \E j \in Stable : /\ points[j].x = call.arg.x + MAX_DISTANCE
                         /\ positions_x[j] \in WindowX(call.arg)
    /\ \E j \in Stable : /\ points[j].y = call.arg.y - MAX_DISTANCE
                         /\ positions_y[j] \notin WindowY(call.arg)

\* C24: in every consistent maintained cloud and for every query point p,
\* every stored point whose squared distance to p is strictly less than R
\* squared has its X rank among the ranks min_x..max_x-1 and its Y rank among
\* the ranks min_y..max_y-1 that test_world_point(p) computes, also when
\* several points have the value of a boundary.
C24_NoMatchOutsideTheWindow ==
    (is_sorted /\ Consistent /\ call.op = "test_world_point") =>
        \A j \in Within(call.arg) :
            /\ positions_x[j] \in WindowX(call.arg)
            /\ positions_y[j] \in WindowY(call.arg)

\* test_world_point was asked, on a consistent full cloud, for a point with
\* a stored point within R and two stored points at the boundary p.x + R
C24_Witness ==
    /\ is_sorted
    /\ Consistent
    /\ ~panicked
    /\ NumPoints = MaxPoints
    /\ call.op = "test_world_point"
    /\ Within(call.arg) # {}
    /\ \E j, k \in Stable : /\ j # k
                            /\ points[j].x = call.arg.x + MAX_DISTANCE
                            /\ points[k].x = call.arg.x + MAX_DISTANCE

(* ------------------------------- the scan ----------------------------- *)

\* test_world_point(p) scans the X axis: its X window is not the wider one
ScansX(p) ==
    usize_le(wrapping_sub(find_point_position_x(Self, search, f64_add(p.x, MAX_DISTANCE)).v,
                          find_point_position_x(Self, search, f64_sub(p.x, MAX_DISTANCE)).v),
             wrapping_sub(find_point_position_y(Self, search, f64_add(p.y, MAX_DISTANCE)).v,
                          find_point_position_y(Self, search, f64_sub(p.y, MAX_DISTANCE)).v))

\* the ranks test_world_point(p) scans, and the vector it reads them from
ScannedRanks(p) == IF ScansX(p) THEN WindowX(p) ELSE WindowY(p)

ScannedOrder(p) == IF ScansX(p) THEN sorted_x ELSE sorted_y

\* the ranks of the scanned candidates that are within R of p and that no
\* other scanned candidate is nearer to p than
NearestScanned(p) ==
    {r \in ScannedRanks(p) :
        /\ squared_distance_to(p, points[ScannedOrder(p)[r]]) < MAX_DISTANCE_SQ
        /\ \A q \in ScannedRanks(p) :
              squared_distance_to(p, points[ScannedOrder(p)[r]])
                 <= squared_distance_to(p, points[ScannedOrder(p)[q]])}

\* C25: when several candidates of the scanned axis are at the same minimal
\* squared distance (< R squared) of the query point, test_world_point returns
\* the one of lowest rank on the scanned axis, the first the scan meets; when
\* no candidate is within R it returns None.
C25_FirstOfTheNearestWins ==
    (is_sorted /\ call.op = "test_world_point" /\ ~panicked) =>
        LET first == NearestScanned(call.arg)
        IN IF first = {}
           THEN call.res = None
           ELSE \E r \in first :
                   /\ \A q \in first : r <= q
                   /\ call.res = Some(ScannedOrder(call.arg)[r])

\* test_world_point returned the first of two scanned candidates that are
\* equally near the query point
C25_Witness ==
    /\ is_sorted
    /\ ~panicked
    /\ call.op = "test_world_point"
    /\ Cardinality(NearestScanned(call.arg)) >= 2
    /\ \E r \in NearestScanned(call.arg) :
          /\ \A q \in NearestScanned(call.arg) : r <= q
          /\ call.res = Some(ScannedOrder(call.arg)[r])

\* the stored points at exactly the distance R of p
AtRadius(p) == {j \in Stable : squared_distance_to(p, points[j]) = MAX_DISTANCE_SQ}

\* C26: the radius threshold is strict. A point returned by test_world_point
\* is at a squared distance strictly below R squared of the query point, a
\* stored point at exactly R squared is never returned, and the call returns
\* None when no stored point is strictly within R.
C26_RadiusIsStrict ==
    (is_sorted /\ call.op = "test_world_point" /\ ~panicked) =>
        /\ call.res # None =>
              /\ call.res[2] \in Within(call.arg)
              /\ call.res[2] \notin AtRadius(call.arg)
        /\ Within(call.arg) = {} => call.res = None

\* test_world_point scanned a candidate at exactly the distance R, no point
\* was nearer, and it returned None
C26_Witness ==
    /\ is_sorted
    /\ ~panicked
    /\ call.op = "test_world_point"
    /\ Within(call.arg) = {}
    /\ \E r \in ScannedRanks(call.arg) :
          ScannedOrder(call.arg)[r] \in AtRadius(call.arg)
    /\ call.res = None

(* --------------------------- the range widths ------------------------- *)

C28_PushAndUpdateYKeepTheInvariants ==
    is_sorted =>
        /\ Invariants1to4
        /\ Consistent
        /\ panicked => call.case = "out_of_range"

\* update_point_y has moved a point of a full maintained cloud with two equal
\* y values, and the Y order is not the order of insertion
C28_Witness ==
    /\ is_sorted
    /\ ~panicked
    /\ NumPoints = MaxPoints
    /\ call.op = "update_point_y"
    /\ call.case = "y"
    /\ \E i \in Stable : sorted_y[i] # i
    /\ \E i, j \in Stable : i # j /\ points[i].y = points[j].y
    /\ sorted_x # sorted_y

(* -------------------------------- ToolBox ----------------------------- *)

ToolBoxEvents == {"onmousemove", "onmouseup", "onmousedown", "onwheel"}

\* the tool an event is for: the selected one, the first when none is selected
Target == IF active_tool # None THEN active_tool[2] ELSE 0

\* C29: every onmousemove, onmouseup, onmousedown and onwheel of a toolbox is
\* received by exactly one tool, the active tool when one is selected and the
\* first tool otherwise, and by no other; no event fails, since a toolbox
\* without tools has failed before its first use.
C29_EventsReachExactlyOneTool ==
    [][call'.op \in ToolBoxEvents =>
          /\ ~panicked'
          /\ Target \in DOMAIN tools
          /\ call'.res = Some(Target)
          /\ tools' = [tools EXCEPT ![Target] = Append(@, call'.op)]]_vars

\* whenever a toolbox has a tool at the index get_active_tool returns, the
\* event is received by that tool and by no other; when it has none, the
\* event panics, with "ToolBox has no tools!" when no index is selected
C29_EventsReachOneToolOrPanic ==
    [][call'.op \in ToolBoxEvents =>
          IF Target \in DOMAIN tools
          THEN /\ ~panicked'
               /\ call'.res = Some(Target)
               /\ tools' = [tools EXCEPT ![Target] = Append(@, call'.op)]
          ELSE /\ panicked'
               /\ tools' = tools
               /\ active_tool = None => call'.res = <<"panic", "ToolBox has no tools!">>]_vars

\* the first event of the toolbox that ToolBox::new() made has panicked
C29_FirstUsePanics ==
    /\ call.op \in ToolBoxEvents
    /\ panicked
    /\ tools = ToolBox_new.tools
    /\ active_tool = ToolBox_new.active_tool

====
